---- MODULE Spec2Model ----
(***************************************************************************)
(* Geo-Data Loader (geo_data_fetch.py): fetch -> transform -> persist.     *)
(*                                                                         *)
(* JSON values are tagged records: Null, Str(s), List(q), Obj(common).     *)
(* A key that a JSON object does not have is the marker Absent.  Python    *)
(* dicts are insertion-ordered: a dict is a sequence of [k, v] pairs.      *)
(* The output file is the sequence of chunks json.dump hands to f.write.   *)
(***************************************************************************)
EXTENDS Integers, Sequences, FiniteSets, TLC

VARIABLES
  pc,            \* where main() is: start, fetched, processed, done, aborted
  run,           \* number of the current invocation of the program
  api,           \* the array the remote API serves
  countries,     \* main: the value fetch_data returned
  cca3_to_cca2,  \* process_data: the code table
  formatted,     \* main: the value process_data returned
  file,          \* OUTPUT_FILE on disk
  dirExists,     \* whether OUTPUT_FILE.parent exists
  gets,          \* GET requests issued in this run
  writes,        \* times this run opened OUTPUT_FILE for writing
  called,        \* the stages main() has entered in this run
  error,         \* the exception that ended this run, or "none"
  fileAtStart,   \* history: file when this run started
  dirAtStart,    \* history: dirExists when this run started
  prevBody,      \* history: response of the last earlier run that completed
  prevGood       \* history: file as that run left it

vars == <<pc, run, api, countries, cca3_to_cca2, formatted, file, dirExists,
          gets, writes, called, error, fileAtStart, dirAtStart, prevBody, prevGood>>

(* ---------------------------------------------------------------- bounds *)
MaxRecords == 2
MaxBorders == 2
MaxRuns == 2

(* ----------------------------------------------------------- JSON values *)
Absent == [t |-> "absent"]
Null == [t |-> "null"]
Str(s) == [t |-> "str", v |-> s]
List(q) == [t |-> "list", v |-> q]
Obj(common) == [t |-> "dict", common |-> common]

\* Python truth value of a JSON value (None, "" and [] are falsy).
Truthy(v) ==
  CASE v.t = "str" -> v.v # ""
    [] v.t = "list" -> v.v # <<>>
    [] v.t = "dict" -> v.common # Absent
    [] OTHER -> FALSE

\* c.get(key, default) on a record of the response.
GetD(c, key, default) == IF c[key] = Absent THEN default ELSE c[key]

\* c.get(key): the default is None.
Get(c, key) == GetD(c, key, Null)

\* isinstance(v, dict)
IsDict(v) == v.t = "dict"

(* ---------------------------------------------------------- Python dicts *)
EmptyDict == <<>>

Keys(d) == {d[i].k : i \in 1..Len(d)}

HasKey(d, key) == \E i \in 1..Len(d) : d[i].k = key

\* Mutant of DictSet: d.setdefault(key, value), the first value of a key stays.
DictSetDefault(d, key, value) ==
  IF \E i \in 1..Len(d) : d[i].k = key THEN d ELSE Append(d, [k |-> key, v |-> value])

\* d[key] = value: a new key is appended, an existing key keeps its place.
DictSet(d, key, value) ==
  IF HasKey(d, key)
  THEN [i \in 1..Len(d) |-> IF d[i].k = key THEN [k |-> key, v |-> value] ELSE d[i]]
  ELSE Append(d, [k |-> key, v |-> value])

\* d.get(key): None when the key is missing.
DictGet(d, key) ==
  IF HasKey(d, key) THEN (CHOOSE e \in {d[i] : i \in 1..Len(d)} : e.k = key).v ELSE Null

(* -------------------------------------------------------- build_cca3_map *)
\* Mutant of Cca3Loop: the comprehension filters on cca3 alone.
RECURSIVE Cca3LoopKeyOnly(_, _, _)
Cca3LoopKeyOnly(cs, i, acc) ==
  IF i > Len(cs) THEN acc
  ELSE Cca3LoopKeyOnly(cs, i + 1,
         IF Truthy(Get(cs[i], "cca3"))
         THEN DictSet(acc, Get(cs[i], "cca3"), Get(cs[i], "cca2"))
         ELSE acc)

RECURSIVE Cca3Loop(_, _, _)
Cca3Loop(cs, i, acc) ==
  IF i > Len(cs) THEN acc
  ELSE Cca3Loop(cs, i + 1,
         IF Truthy(Get(cs[i], "cca3")) /\ Truthy(Get(cs[i], "cca2"))
         THEN DictSet(acc, Get(cs[i], "cca3"), Get(cs[i], "cca2"))
         ELSE acc)

build_cca3_map(cs) == Cca3Loop(cs, 1, EmptyDict)

(* ---------------------------------------------------------- process_data *)
\* name_obj.get("common") if isinstance(name_obj, dict) else None
NameOf(c) ==
  LET name_obj == GetD(c, "name", Obj(Absent))
  IN IF IsDict(name_obj) THEN GetD(name_obj, "common", Null) ELSE Null

\* Mutant of RegionOf: c.get("region") or "Unknown".
RegionOrUnknown(c) ==
  IF Truthy(Get(c, "region")) THEN Get(c, "region") ELSE Str("Unknown")

\* c.get("region", "Unknown")
RegionOf(c) == GetD(c, "region", Str("Unknown"))

\* c.get("borders", [])
BordersOf(c) == GetD(c, "borders", List(<<>>))

\* `for b in borders_cca3` raises TypeError when borders_cca3 is None.
Iterable(v) == v.t = "list"

\* Mutant of Translate: [table.get(b) for b in q], without the filter.
RECURSIVE TranslateUnfiltered(_, _)
TranslateUnfiltered(table, q) ==
  IF q = <<>> THEN <<>>
  ELSE <<DictGet(table, Head(q))>> \o TranslateUnfiltered(table, Tail(q))

\* [table.get(b) for b in q if table.get(b)]
RECURSIVE Translate(_, _)
Translate(table, q) ==
  IF q = <<>> THEN <<>>
  ELSE (IF Truthy(DictGet(table, Head(q))) THEN <<DictGet(table, Head(q))>> ELSE <<>>)
       \o Translate(table, Tail(q))

\* Mutant of Skipped: `if not name: continue`.
SkippedNameOnly(c) == ~Truthy(NameOf(c))

\* The skip test of one record.
Skipped(c) == ~Truthy(NameOf(c)) \/ ~Truthy(Get(c, "cca2"))

Entry(c, table) ==
  [cca2 |-> Get(c, "cca2"), region |-> RegionOf(c),
   borders |-> Translate(table, BordersOf(c).v)]

\* Mutant of ProcLoop: the code table is filled in the same pass, so a record only
\* sees the codes of the records up to itself.
RECURSIVE ProcLoopSinglePass(_, _, _, _)
ProcLoopSinglePass(cs, table, i, acc) ==
  IF i > Len(cs) THEN [raised |-> FALSE, out |-> acc]
  ELSE IF Skipped(cs[i]) THEN ProcLoopSinglePass(cs, table, i + 1, acc)
  ELSE IF ~Iterable(BordersOf(cs[i])) THEN [raised |-> TRUE, out |-> acc]
  ELSE ProcLoopSinglePass(cs, table, i + 1,
         DictSet(acc, NameOf(cs[i]), Entry(cs[i], build_cca3_map(SubSeq(cs, 1, i)))))

\* The loop of process_data from record i on; raised = an exception left it.
RECURSIVE ProcLoop(_, _, _, _)
ProcLoop(cs, table, i, acc) ==
  IF i > Len(cs) THEN [raised |-> FALSE, out |-> acc]
  ELSE IF Skipped(cs[i]) THEN ProcLoop(cs, table, i + 1, acc)
  ELSE IF ~Iterable(BordersOf(cs[i])) THEN [raised |-> TRUE, out |-> acc]
  ELSE ProcLoop(cs, table, i + 1, DictSet(acc, NameOf(cs[i]), Entry(cs[i], table)))

process_data(cs) == ProcLoop(cs, build_cca3_map(cs), 1, EmptyDict)

(* ------------------------------------------------------------- json.dump *)
\* json.dumps of a str (no character of the model's alphabet needs escaping;
\* ensure_ascii=False leaves the others as they are).
Quote(s) == "\"" \o s \o "\""

\* '\n' + indent * level, with indent = 2 spaces
NewlineIndent(level) ==
  CASE level = 0 -> "\n"
    [] level = 1 -> "\n  "
    [] level = 2 -> "\n    "
    [] level = 3 -> "\n      "

\* A str or None value.
Scalar(v) == IF v.t = "str" THEN Quote(v.v) ELSE "null"

\* _iterencode_list: the chunks of a list of scalars at nesting `level`.
RECURSIVE ListItems(_, _, _)
ListItems(q, level, first) ==
  IF q = <<>> THEN <<>>
  ELSE <<(IF first THEN "[" \o NewlineIndent(level) ELSE "," \o NewlineIndent(level))
          \o Scalar(Head(q))>>
       \o ListItems(Tail(q), level, FALSE)

EncodeList(q, level) ==
  IF q = <<>> THEN <<"[]">>
  ELSE ListItems(q, level + 1, TRUE) \o <<NewlineIndent(level), "]">>

\* _iterencode_dict of one entry: keys in the order the literal at lines 69-73 lists them.
EncodeEntry(e, level) ==
  <<"{", NewlineIndent(level + 1)>>
  \o <<Quote("cca2"), ": ", Scalar(e.cca2)>>
  \o <<"," \o NewlineIndent(level + 1), Quote("region"), ": ", Scalar(e.region)>>
  \o <<"," \o NewlineIndent(level + 1), Quote("borders"), ": ">>
  \o EncodeList(e.borders, level + 1)
  \o <<NewlineIndent(level), "}">>

\* _iterencode_dict of the top-level mapping, in insertion order.
RECURSIVE DictItems(_, _, _)
DictItems(d, i, level) ==
  IF i > Len(d) THEN <<>>
  ELSE (IF i = 1 THEN <<>> ELSE <<"," \o NewlineIndent(level)>>)
       \o <<Scalar(d[i].k), ": ">>
       \o EncodeEntry(d[i].v, level)
       \o DictItems(d, i + 1, level)

\* The chunks json.dump(data, f, ensure_ascii=False, indent=2) writes.
Serialize(d) ==
  IF d = <<>> THEN <<"{}">>
  ELSE <<"{", NewlineIndent(1)>> \o DictItems(d, 1, 1) \o <<NewlineIndent(0), "}">>

(* ------------------------------------------------------------ filesystem *)
NoFile == [exists |-> FALSE, chunks |-> <<>>]
File(chunks) == [exists |-> TRUE, chunks |-> chunks]

\* Mutant of OpenWrite: open(path, "a"), the chunks are appended.
OpenAppend(old, chunks) == File(old.chunks \o chunks)

\* open(path, "w"): the file is created or truncated, then the chunks are written.
OpenWrite(old, chunks) == File(chunks)

(* ---------------------------------------------------------------- inputs *)
Rec(n, c2, c3, r, b) == [name |-> n, cca2 |-> c2, cca3 |-> c3, region |-> r, borders |-> b]

\* Arrays of at most MaxRecords records of S.
ArraysOf(S) == UNION {[1..n -> S] : n \in 0..MaxRecords}

\* borders values: the key missing, null, or a list of at most MaxBorders codes.
BorderValues(codes) ==
  {Absent, Null} \cup {List(q) : q \in UNION {[1..n -> codes] : n \in 0..MaxBorders}}

\* Records that differ in how name and cca2 are present.
NameRecords ==
  {Rec(n, c2, Absent, Absent, Absent) :
     n \in {Absent, Null, Str("A"), Obj(Absent), Obj(Null), Obj(Str("")), Obj(Str("A")),
            Obj(Str("B"))},
     c2 \in {Absent, Null, Str(""), Str("AA")}}

\* Records that differ in how cca3 and cca2 are present, with and without a name.
CodeRecords ==
  {Rec(n, c2, c3, Absent, Absent) :
     n \in {Absent, Obj(Str("A"))},
     c2 \in {Absent, Str(""), Str("AA"), Str("BB")},
     c3 \in {Absent, Str(""), Str("AAA"), Str("BBB")}}

\* Two countries with every borders value over their codes.
BorderRecords ==
  {Rec(Obj(Str(x[1])), Str(x[2]), Str(x[3]), Absent, b) :
     x \in {<<"A", "AA", "AAA">>, <<"B", "BB", "BBB">>},
     b \in BorderValues({Str("AAA"), Str("BBB")})}

\* Records that share names and differ in cca2, region and borders.
RegionRecords ==
  {Rec(Obj(Str(n)), c2, Str("AAA"), r, b) :
     n \in {"A", "B"},
     c2 \in {Absent, Str("AA"), Str("BB")},
     r \in {Absent, Null, Str("Asia")},
     b \in {Absent, List(<<Str("AAA")>>)}}

\* The responses the transform is checked on.
RecordArrays ==
  ArraysOf(NameRecords) \cup ArraysOf(CodeRecords) \cup ArraysOf(BorderRecords)
  \cup ArraysOf(RegionRecords)

\* The records of the responses the whole pipeline is run on.
ApiRecords ==
  {Rec(Obj(Str(x[1])), Str(x[2]), Str(x[3]), r, b) :
     x \in {<<"A", "AA", "AAA">>, <<"B", "BB", "BBB">>},
     r \in {Absent, Str("Asia")},
     b \in {Absent, Null, List(<<Str("BBB")>>)}}

\* What OUTPUT_FILE may hold before the first run.
OldFiles == {NoFile, File(<<>>), File(<<"{", "\n  ", "\"Old\"", ": ", "{}", "\n", "}">>)}

FetchErrors == {"HTTPStatusError", "TransportError"}

(* ------------------------------------------------------------------ main *)
Init ==
  /\ pc = "start"
  /\ run = 1
  /\ api \in ArraysOf(ApiRecords)
  /\ countries = <<>>
  /\ cca3_to_cca2 = EmptyDict
  /\ formatted = EmptyDict
  /\ file \in OldFiles
  /\ dirExists \in BOOLEAN
  /\ file.exists => dirExists
  /\ gets = 0
  /\ writes = 0
  /\ called = {}
  /\ error = "none"
  /\ fileAtStart = file
  /\ dirAtStart = dirExists
  /\ prevBody = <<>>
  /\ prevGood = NoFile

\* fetch_data returns resp.json().
Fetch ==
  /\ pc = "start"
  /\ gets' = gets + 1
  /\ called' = called \cup {"fetch_data"}
  /\ countries' = api
  /\ pc' = "fetched"
  /\ UNCHANGED <<run, api, cca3_to_cca2, formatted, file, dirExists, writes, error,
                 fileAtStart, dirAtStart, prevBody, prevGood>>

\* Mutant of FetchFail: the first failure is retried.
FetchFailRetry ==
  /\ pc = "start"
  /\ \E e \in FetchErrors : error' = e
  /\ gets' = gets + 1
  /\ called' = called \cup {"fetch_data"}
  /\ pc' = IF gets = 0 THEN "start" ELSE "aborted"
  /\ UNCHANGED <<run, api, countries, cca3_to_cca2, formatted, file, dirExists, writes,
                 fileAtStart, dirAtStart, prevBody, prevGood>>

\* client.get or resp.raise_for_status() raises; main() does not catch it.
FetchFail ==
  /\ pc = "start"
  /\ \E e \in FetchErrors : error' = e
  /\ gets' = gets + 1
  /\ called' = called \cup {"fetch_data"}
  /\ pc' = "aborted"
  /\ UNCHANGED <<run, api, countries, cca3_to_cca2, formatted, file, dirExists, writes,
                 fileAtStart, dirAtStart, prevBody, prevGood>>

\* process_data returns.
Process ==
  /\ pc = "fetched"
  /\ ~process_data(countries).raised
  /\ called' = called \cup {"process_data"}
  /\ cca3_to_cca2' = build_cca3_map(countries)
  /\ formatted' = process_data(countries).out
  /\ pc' = "processed"
  /\ UNCHANGED <<run, api, countries, file, dirExists, gets, writes, error,
                 fileAtStart, dirAtStart, prevBody, prevGood>>

\* process_data raises; main() does not catch it.
ProcessRaise ==
  /\ pc = "fetched"
  /\ process_data(countries).raised
  /\ called' = called \cup {"process_data"}
  /\ cca3_to_cca2' = build_cca3_map(countries)
  /\ error' = "TypeError"
  /\ pc' = "aborted"
  /\ UNCHANGED <<run, api, countries, formatted, file, dirExists, gets, writes,
                 fileAtStart, dirAtStart, prevBody, prevGood>>

\* save_json returns.
Save ==
  /\ pc = "processed"
  /\ called' = called \cup {"save_json"}
  /\ dirExists' = TRUE
  /\ file' = OpenWrite(file, Serialize(formatted))
  /\ writes' = writes + 1
  /\ pc' = "done"
  /\ UNCHANGED <<run, api, countries, cca3_to_cca2, formatted, gets, error,
                 fileAtStart, dirAtStart, prevBody, prevGood>>

\* save_json raises OSError: in mkdir, in open, or in a write after k chunks.
SaveFail ==
  /\ pc = "processed"
  /\ called' = called \cup {"save_json"}
  /\ error' = "OSError"
  /\ pc' = "aborted"
  /\ \/ /\ ~dirExists
        /\ UNCHANGED <<dirExists, file, writes>>
     \/ /\ dirExists' = TRUE
        /\ UNCHANGED <<file, writes>>
     \/ /\ dirExists' = TRUE
        /\ writes' = writes + 1
        /\ \E k \in {0, Len(Serialize(formatted)) \div 2} :
             file' = OpenWrite(file, SubSeq(Serialize(formatted), 1, k))
  /\ UNCHANGED <<run, api, countries, cca3_to_cca2, formatted, gets,
                 fileAtStart, dirAtStart, prevBody, prevGood>>

\* The program is invoked again after a run has ended.
Restart ==
  /\ pc \in {"done", "aborted"}
  /\ run < MaxRuns
  /\ run' = run + 1
  /\ pc' = "start"
  /\ countries' = <<>>
  /\ cca3_to_cca2' = EmptyDict
  /\ formatted' = EmptyDict
  /\ gets' = 0
  /\ writes' = 0
  /\ called' = {}
  /\ error' = "none"
  /\ fileAtStart' = file
  /\ dirAtStart' = dirExists
  /\ prevBody' = IF pc = "done" THEN countries ELSE prevBody
  /\ prevGood' = IF pc = "done" THEN file ELSE prevGood
  /\ UNCHANGED <<api, file, dirExists>>

\* Between two runs the remote dataset loses its last record.
ApiChange ==
  /\ pc \in {"done", "aborted"}
  /\ api # <<>>
  /\ api' = SubSeq(api, 1, Len(api) - 1)
  /\ UNCHANGED <<pc, run, countries, cca3_to_cca2, formatted, file, dirExists, gets,
                 writes, called, error, fileAtStart, dirAtStart, prevBody, prevGood>>

Next ==
  \/ Fetch
  \/ FetchFail
  \/ Process
  \/ ProcessRaise
  \/ Save
  \/ SaveFail
  \/ Restart
  \/ ApiChange

Spec == Init /\ [][Next]_vars

(* ------------------------------------------- the transform on its own *)
\* process_data applied to every response of RecordArrays.
InitRecords ==
  /\ pc = "fetched"
  /\ run = 1
  /\ countries \in RecordArrays
  /\ api = countries
  /\ cca3_to_cca2 = EmptyDict
  /\ formatted = EmptyDict
  /\ file = NoFile
  /\ dirExists = FALSE
  /\ gets = 1
  /\ writes = 0
  /\ called = {"fetch_data"}
  /\ error = "none"
  /\ fileAtStart = file
  /\ dirAtStart = dirExists
  /\ prevBody = <<>>
  /\ prevGood = NoFile

NextRecords ==
  \/ Process
  \/ ProcessRaise

SpecRecords == InitRecords /\ [][NextRecords]_vars

(* ------------------------------------------- what the claims speak about *)
\* A present, non-empty string.
NonEmpty(v) == v.t = "str" /\ v.v # ""

\* name.common of an input record, Absent when name is missing or no object.
CommonName(c) == IF c.name.t = "dict" THEN c.name.common ELSE Absent

\* The record has a non-empty name.common and a non-empty cca2.
Emittable(c) == NonEmpty(CommonName(c)) /\ NonEmpty(c.cca2)

\* The record has a non-empty cca3 and a non-empty cca2.
Coded(c) == NonEmpty(c.cca3) /\ NonEmpty(c.cca2)

LastIndex(S) == CHOOSE j \in S : \A m \in S : m <= j

\* The positions of the emittable input records named k.
Named(k) == {j \in 1..Len(countries) : Emittable(countries[j]) /\ CommonName(countries[j]) = k}

\* The positions of the coded input records whose cca3 is code.
CodedAs(code) == {j \in 1..Len(countries) : Coded(countries[j]) /\ countries[j].cca3 = code}

\* The input borders list of a record (empty when the field is missing).
InputBorders(c) == IF c.borders.t = "list" THEN c.borders.v ELSE <<>>

\* The positions of a record's borders whose code some coded record of the input has.
Resolving(c) == {p \in 1..Len(InputBorders(c)) : CodedAs(InputBorders(c)[p]) # {}}

\* The n-th smallest element of a set of numbers.
Nth(S, n) == CHOOSE p \in S : Cardinality({q \in S : q < p}) = n - 1

\* The borders of c with the non-resolving codes removed and the others replaced
\* by the cca2 of the last coded record of the input with that cca3.
ExpectedBorders(c) ==
  [n \in 1..Cardinality(Resolving(c)) |->
     countries[LastIndex(CodedAs(InputBorders(c)[Nth(Resolving(c), n)]))].cca2]

ExpectedRegion(c) == IF c.region = Absent THEN Str("Unknown") ELSE c.region

Entries == 1..Len(formatted)

(* ---------------------------------------------------------------- claims *)
\* C1: every key of the output mapping is the non-empty name.common of some input
\* record whose cca2 is non-empty, and every output entry's cca2 is non-empty; a
\* record lacking name.common or cca2 never appears.
C1_OnlyNamedAndCoded ==
  \A i \in Entries :
    /\ NonEmpty(formatted[i].k)
    /\ NonEmpty(formatted[i].v.cca2)
    /\ \E j \in 1..Len(countries) :
         /\ Emittable(countries[j])
         /\ CommonName(countries[j]) = formatted[i].k
         /\ countries[j].cca2 = formatted[i].v.cca2

C1_Witness ==
  /\ pc = "processed"
  /\ Len(formatted) = 1
  /\ \E j \in 1..Len(countries) : ~NonEmpty(CommonName(countries[j])) /\ NonEmpty(countries[j].cca2)
  /\ \E j \in 1..Len(countries) : NonEmpty(CommonName(countries[j])) /\ NonEmpty(countries[j].cca2)

\* C2: the keys of the code table are exactly the cca3 of the records with both cca3
\* and cca2 non-empty, named or not, and each key maps to the cca2 of the last such
\* record in input order; a record with cca3 but no cca2 contributes no key.
C2_CodeTableExact ==
  pc \in {"processed", "aborted"} =>
    /\ Keys(cca3_to_cca2) = {countries[j].cca3 : j \in {m \in 1..Len(countries) : Coded(countries[m])}}
    /\ \A i \in 1..Len(cca3_to_cca2) :
         /\ cca3_to_cca2[i].v = countries[LastIndex(CodedAs(cca3_to_cca2[i].k))].cca2
         /\ \A m \in 1..Len(cca3_to_cca2) : cca3_to_cca2[m].k = cca3_to_cca2[i].k => m = i

C2_Witness ==
  /\ pc = "processed"
  /\ Len(countries) = 2
  /\ Coded(countries[1]) /\ Coded(countries[2])
  /\ countries[1].cca3 = countries[2].cca3
  /\ countries[1].cca2 # countries[2].cca2
  /\ countries[2].name = Absent
  /\ Len(cca3_to_cca2) = 1

\* C3: every element of an entry's borders is the code-table value of some code of
\* that record's input borders list, and is never null or the empty string.
C3_BordersFromTable ==
  \A i \in Entries :
    \A p \in 1..Len(formatted[i].v.borders) :
      /\ NonEmpty(formatted[i].v.borders[p])
      /\ \E q \in 1..Len(InputBorders(countries[LastIndex(Named(formatted[i].k))])) :
           LET code == InputBorders(countries[LastIndex(Named(formatted[i].k))])[q]
           IN /\ HasKey(cca3_to_cca2, code)
              /\ DictGet(cca3_to_cca2, code) = formatted[i].v.borders[p]

C3_Witness ==
  /\ pc = "processed"
  /\ \E i \in Entries :
       LET c == countries[LastIndex(Named(formatted[i].k))]
       IN /\ Len(formatted[i].v.borders) = 1
          /\ Len(InputBorders(c)) = 2
          /\ ~HasKey(cca3_to_cca2, InputBorders(c)[1])

\* C5: no irregular record or field makes process_data raise.
C5_NeverRaises == error # "TypeError"

\* C6: an entry's region is its input record's region when the record has the
\* field, and "Unknown" when it has not.
C6_RegionOrUnknown ==
  \A i \in Entries :
    formatted[i].v.region = ExpectedRegion(countries[LastIndex(Named(formatted[i].k))])

C6_Witness ==
  /\ pc = "processed"
  /\ Len(formatted) = 2
  /\ countries[1].region = Absent /\ formatted[1].v.region = Str("Unknown")
  /\ countries[2].region = Null /\ formatted[2].v.region = Null

\* C9: an entry's borders is its record's input borders with the non-resolving
\* codes removed and each other code replaced by its code-table value, order and
\* repetitions kept; a code resolves when any record of the input, earlier or
\* later, has it.
C9_BordersInOrder ==
  \A i \in Entries :
    formatted[i].v.borders = ExpectedBorders(countries[LastIndex(Named(formatted[i].k))])

C9_Witness ==
  /\ pc = "processed"
  /\ Len(countries) = 2
  /\ Len(formatted) = 2
  /\ InputBorders(countries[1]) = <<Str("BBB"), Str("AAA")>>
  /\ formatted[1].v.borders = <<Str("BB"), Str("AA")>>
  /\ InputBorders(countries[2]) = <<Str("AAA"), Str("AAA")>>
  /\ formatted[2].v.borders = <<Str("AA"), Str("AA")>>

\* C10: the output has exactly one entry for each name of an emittable record, and
\* its cca2, region and borders are those of the last emittable record with that
\* name; a skipped record changes nothing.
C10_LastWriteWins ==
  pc = "processed" =>
    /\ Keys(formatted) = {CommonName(countries[j]) : j \in {m \in 1..Len(countries) : Emittable(countries[m])}}
    /\ \A i \in Entries :
         LET c == countries[LastIndex(Named(formatted[i].k))]
         IN /\ \A m \in Entries : formatted[m].k = formatted[i].k => m = i
            /\ formatted[i].v = [cca2 |-> c.cca2, region |-> ExpectedRegion(c),
                                 borders |-> ExpectedBorders(c)]

C10_Witness ==
  /\ pc = "processed"
  /\ Len(countries) = 2
  /\ CommonName(countries[1]) = CommonName(countries[2])
  /\ Emittable(countries[1]) /\ Emittable(countries[2])
  /\ countries[1].cca2 # countries[2].cca2
  /\ countries[1].region # countries[2].region
  /\ countries[1].borders # countries[2].borders
  /\ Len(formatted) = 1

\* C4: a failed fetch ends the run at once: one GET and no retry, process_data and
\* save_json never entered, the output file and its parent directory as they were
\* when the run started.
C4_FetchFailureAborts ==
  error \in FetchErrors =>
    /\ pc = "aborted"
    /\ gets = 1
    /\ called = {"fetch_data"}
    /\ writes = 0
    /\ file = fileAtStart
    /\ dirExists = dirAtStart

C4_Witness ==
  /\ pc = "aborted"
  /\ error = "HTTPStatusError"
  /\ run = 2
  /\ file.exists
  /\ file.chunks # <<>>
  /\ file = prevGood

\* C7: two runs that receive the same response and both complete leave the same
\* file, whatever the file held before either of them.
C7_SameInputSameFile ==
  (pc = "done" /\ prevGood.exists /\ prevBody = countries) => file = prevGood

C7_Witness ==
  /\ pc = "done"
  /\ run = 2
  /\ prevGood.exists
  /\ prevBody = countries
  /\ Len(formatted) = 2
  /\ fileAtStart = prevGood

\* C8: whenever the fetch succeeds and no filesystem operation fails, the run
\* writes the output file exactly once and the file ends as the serialization of
\* this run's mapping; an empty input array writes {}.
C8_AlwaysWritesOnce ==
  (pc \in {"done", "aborted"} /\ error \notin FetchErrors /\ error # "OSError") =>
    /\ writes = 1
    /\ file = File(Serialize(formatted))
    /\ (countries = <<>> => file.chunks = <<"{}">>)

\* The part of C8 that the code keeps: a run that completes has written the file
\* once, after the transform, as the serialization of this run's mapping.
CompletedRunWroteOnce ==
  pc = "done" =>
    /\ writes = 1
    /\ called = {"fetch_data", "process_data", "save_json"}
    /\ ~process_data(countries).raised
    /\ file = File(Serialize(process_data(countries).out))
    /\ (countries = <<>> => file.chunks = <<"{}">>)

====
